---------------------------- MODULE Spec2Model ----------------------------
(***************************************************************************)
(* Model of src/main.py: the three tool functions, the crew-answer parser, *)
(* the feasibility scorer and the top-level assessment.                    *)
(*                                                                         *)
(* Python values are tagged records [t, v].  A str is a sequence of        *)
(* one-character strings, so that lower(), split(), int() and the          *)
(* substring operator are computed rather than assumed.  A JSON document   *)
(* (the text json.dumps writes and json.loads reads) is a value of tag     *)
(* "text": it carries the code-fence that wraps it and the value the       *)
(* library parser yields on its body (NotJson when the body does not       *)
(* parse).  Scores are fixed-point integers: permit_score, research_score  *)
(* and the rounded overall_score in tenths, the unrounded overall score in *)
(* hundredths.                                                             *)
(***************************************************************************)
EXTENDS Integers, Sequences, FiniteSets, TLC

\* JURISDICTION_RULES, PERMIT_TEMPLATE: the module-level dicts
\* call: the call in progress or just returned (its arguments and result)
VARIABLES JURISDICTION_RULES, PERMIT_TEMPLATE, call

vars == <<JURISDICTION_RULES, PERMIT_TEMPLATE, call>>

---------------------------------------------------------------------------
(* Bounds of the explored inputs *)

MaxFrags == 3
MaxArticles == 4
FeeMax == 280
MaxWeeks == 6
MaxTotal == 12

---------------------------------------------------------------------------
(* Python values *)

PyDict(f) == [t |-> "dict", v |-> f]
PyList(s) == [t |-> "list", v |-> s]
PyStr(c) == [t |-> "str", v |-> c]
PyInt(n) == [t |-> "int", v |-> n]
PyBool(b) == [t |-> "bool", v |-> b]
PyNone == [t |-> "none", v |-> 0]
\* a float with one decimal, held in tenths
PyFloat(tenths) == [t |-> "float", v |-> tenths]
\* an attribute the object does not have, a local not yet bound
NoAttr == [t |-> "noattr", v |-> 0]
Unbound == [t |-> "unbound", v |-> 0]
NotJson == [t |-> "notjson", v |-> 0]
Text(fence, body) == [t |-> "text", v |-> [fence |-> fence, body |-> body]]
EmptyDict == PyDict(<<>>)

Return(x) == [raised |-> "", value |-> x]
Raise(e) == [raised |-> e, value |-> PyNone]

IsStr(x) == x.t \in {"str", "text"}

\* bool(x): the truth value Python gives a value
Truthy(x) ==
    CASE x.t = "dict" -> DOMAIN x.v # {}
      [] x.t = "list" -> Len(x.v) > 0
      [] x.t = "str" -> Len(x.v) > 0
      [] x.t = "int" -> x.v # 0
      [] x.t = "bool" -> x.v
      [] x.t = "none" -> FALSE
      [] x.t = "text" -> TRUE

\* sub in s, for two strs
Contains(sub, s) ==
    \E i \in 0..(Len(s) - Len(sub)) : SubSeq(s, i + 1, i + Len(sub)) = sub

\* the characters of the dictionary keys the code tests with "in"
KeyChars ==
    [jurisdiction_info |-> <<"j","u","r","i","s","d","i","c","t","i","o","n","_","i","n","f","o">>,
     permit_form |-> <<"p","e","r","m","i","t","_","f","o","r","m">>,
     week |-> <<"w","e","e","k">>]

\* key in x: "yes", "no", or "TypeError" when x is not a container
In(key, x) ==
    CASE x.t = "dict" -> IF key \in DOMAIN x.v THEN "yes" ELSE "no"
      [] x.t = "list" -> IF \E i \in 1..Len(x.v) : x.v[i] = PyStr(KeyChars[key])
                         THEN "yes" ELSE "no"
      [] x.t = "str" -> IF Contains(KeyChars[key], x.v) THEN "yes" ELSE "no"
      [] x.t \in {"int", "bool", "none"} -> "TypeError"

\* x.get(key, default) on a dict
Get(x, key, default) == IF key \in DOMAIN x.v THEN x.v[key] ELSE default

IsDigit(c) == c \in {"0", "1", "2", "3", "4", "5", "6", "7", "8", "9"}

DigitVal(c) == CHOOSE d \in 0..9 : <<"0","1","2","3","4","5","6","7","8","9">>[d + 1] = c

RECURSIVE ToNat(_)
ToNat(s) == IF s = <<>> THEN 0 ELSE 10 * ToNat(SubSeq(s, 1, Len(s) - 1)) + DigitVal(s[Len(s)])

AllDigits(s) == Len(s) > 0 /\ \A i \in 1..Len(s) : IsDigit(s[i])

\* s.strip(), for the blank the explored strings contain
RECURSIVE Strip(_)
Strip(s) ==
    IF s = <<>> THEN s
    ELSE IF Head(s) = " " THEN Strip(Tail(s))
    ELSE IF s[Len(s)] = " " THEN Strip(SubSeq(s, 1, Len(s) - 1))
    ELSE s

\* the JSON scalars among the strs whose characters are modelled
ParseScalar(s) ==
    LET c == Strip(s)
        digits == IF c # <<>> /\ Head(c) = "-" THEN Tail(c) ELSE c
    IN IF AllDigits(digits) /\ (Len(digits) = 1 \/ Head(digits) # "0")
       THEN PyInt(IF c = digits THEN ToNat(digits) ELSE -ToNat(digits))
       ELSE IF c = <<"n","u","l","l">> THEN PyNone
       ELSE IF c = <<"t","r","u","e">> THEN PyBool(TRUE)
       ELSE IF c = <<"f","a","l","s","e">> THEN PyBool(FALSE)
       ELSE NotJson

\* json.loads(s): the parsed value, or NotJson for a JSONDecodeError
json_loads(s) ==
    IF s.t = "text"
    THEN IF s.v.fence = "" THEN s.v.body ELSE NotJson
    ELSE ParseScalar(s.v)

\* json.dumps(x)
json_dumps(x) == Text("", x)

LowerChar(c) ==
    CASE c = "L" -> "l"
      [] c = "A" -> "a"
      [] c = "S" -> "s"
      [] c = "F" -> "f"
      [] OTHER -> c

Lower(s) == [i \in 1..Len(s) |-> LowerChar(s[i])]

---------------------------------------------------------------------------
(* Module-level tables *)

InitRules ==
    [los_angeles |-> PyDict(
        [jurisdiction_name |-> PyStr(<<"C","i","t","y"," ","o","f"," ","L","o","s"," ","A","n","g","e","l","e","s">>),
         permit_type |-> PyStr(<<"S","o","l","a","r"," ","I","n","s","t","a","l","l","a","t","i","o","n"," ","P","e","r","m","i","t">>),
         requirements |-> PyList(<<PyStr(<<"S","i","t","e"," ","p","l","a","n"," ","w","i","t","h"," ","s","o","l","a","r"," ","a","r","r","a","y"," ","l","a","y","o","u","t">>),
                                 PyStr(<<"E","l","e","c","t","r","i","c","a","l"," ","s","i","n","g","l","e","-","l","i","n","e"," ","d","i","a","g","r","a","m">>),
                                 PyStr(<<"S","t","r","u","c","t","u","r","a","l"," ","c","a","l","c","u","l","a","t","i","o","n","s">>),
                                 PyStr(<<"I","n","t","e","r","c","o","n","n","e","c","t","i","o","n"," ","a","p","p","l","i","c","a","t","i","o","n">>),
                                 PyStr(<<"L","A","D","B","S"," ","p","e","r","m","i","t"," ","a","p","p","l","i","c","a","t","i","o","n">>)>>),
         fees |-> PyInt(500),
         processing_time |-> PyStr(<<"4","-","6"," ","w","e","e","k","s">>),
         contact |-> PyStr(<<"l","a","d","b","s",".","l","a","c","i","t","y",".","o","r","g">>)]),
     san_francisco |-> PyDict(
        [jurisdiction_name |-> PyStr(<<"C","i","t","y"," ","o","f"," ","S","a","n"," ","F","r","a","n","c","i","s","c","o">>),
         permit_type |-> PyStr(<<"S","o","l","a","r"," ","P","h","o","t","o","v","o","l","t","a","i","c"," ","S","y","s","t","e","m"," ","P","e","r","m","i","t">>),
         requirements |-> PyList(<<PyStr(<<"S","o","l","a","r"," ","s","y","s","t","e","m"," ","p","l","a","n","s"," ","a","n","d"," ","s","p","e","c","i","f","i","c","a","t","i","o","n","s">>),
                                 PyStr(<<"E","l","e","c","t","r","i","c","a","l"," ","p","e","r","m","i","t"," ","a","p","p","l","i","c","a","t","i","o","n">>),
                                 PyStr(<<"B","u","i","l","d","i","n","g"," ","p","e","r","m","i","t"," ","(","i","f"," ","r","o","o","f"," ","m","o","d","i","f","i","c","a","t","i","o","n","s",")">>),
                                 PyStr(<<"F","i","r","e"," ","d","e","p","a","r","t","m","e","n","t"," ","c","l","e","a","r","a","n","c","e"," ","f","o","r","m">>),
                                 PyStr(<<"U","t","i","l","i","t","y"," ","i","n","t","e","r","c","o","n","n","e","c","t","i","o","n"," ","a","g","r","e","e","m","e","n","t">>)>>),
         fees |-> PyInt(750),
         processing_time |-> PyStr(<<"3","-","4"," ","w","e","e","k","s">>),
         contact |-> PyStr(<<"s","f","d","b","i",".","o","r","g">>)]),
     california_default |-> PyDict(
        [jurisdiction_name |-> PyStr(<<"C","a","l","i","f","o","r","n","i","a"," ","C","o","u","n","t","y"," ","(","G","e","n","e","r","i","c",")">>),
         permit_type |-> PyStr(<<"R","e","s","i","d","e","n","t","i","a","l"," ","S","o","l","a","r"," ","P","e","r","m","i","t">>),
         requirements |-> PyList(<<PyStr(<<"S","o","l","a","r"," ","s","y","s","t","e","m"," ","d","e","s","i","g","n"," ","p","l","a","n","s">>),
                                 PyStr(<<"E","l","e","c","t","r","i","c","a","l"," ","d","i","a","g","r","a","m">>),
                                 PyStr(<<"B","u","i","l","d","i","n","g"," ","d","e","p","a","r","t","m","e","n","t"," ","a","p","p","l","i","c","a","t","i","o","n">>),
                                 PyStr(<<"U","t","i","l","i","t","y"," ","n","o","t","i","f","i","c","a","t","i","o","n"," ","f","o","r","m">>)>>),
         fees |-> PyInt(300),
         processing_time |-> PyStr(<<"2","-","4"," ","w","e","e","k","s">>),
         contact |-> PyStr(<<"L","o","c","a","l"," ","b","u","i","l","d","i","n","g"," ","d","e","p","a","r","t","m","e","n","t">>)])]

InitTemplate ==
    [applicant_name |-> PyStr(<<>>),
     property_address |-> PyStr(<<>>),
     jurisdiction |-> PyStr(<<>>),
     permit_type |-> PyStr(<<>>),
     system_size_kw |-> PyStr(<<>>),
     panel_count |-> PyStr(<<>>),
     inverter_type |-> PyStr(<<>>),
     installation_company |-> PyStr(<<>>),
     contractor_license |-> PyStr(<<>>),
     estimated_cost |-> PyStr(<<>>),
     requirements_checklist |-> PyList(<<>>),
     fees |-> PyInt(0),
     processing_time |-> PyStr(<<>>),
     submission_date |-> PyStr(<<>>),
     status |-> PyStr(<<"D","r","a","f","t">>)]

---------------------------------------------------------------------------
(* classify_jurisdiction_tool *)

\* variant: the San Francisco tokens tested first
JurisdictionOfSFFirst(address) ==
    LET address_lower == Lower(address) IN
    IF Contains(<<"s","a","n"," ","f","r","a","n","c","i","s","c","o">>, address_lower) \/ Contains(<<"s","f">>, address_lower)
    THEN "san_francisco"
    ELSE IF Contains(<<"l","o","s"," ","a","n","g","e","l","e","s">>, address_lower) \/ Contains(<<"l","a">>, address_lower)
    THEN "los_angeles"
    ELSE "california_default"

JurisdictionOf(address) ==
    LET address_lower == Lower(address) IN
    IF Contains(<<"l","o","s"," ","a","n","g","e","l","e","s">>, address_lower) \/ Contains(<<"l","a">>, address_lower)
    THEN "los_angeles"
    ELSE IF Contains(<<"s","a","n"," ","f","r","a","n","c","i","s","c","o">>, address_lower) \/ Contains(<<"s","f">>, address_lower)
    THEN "san_francisco"
    ELSE "california_default"

IdChars ==
    [los_angeles |-> <<"l","o","s","_","a","n","g","e","l","e","s">>,
     san_francisco |-> <<"s","a","n","_","f","r","a","n","c","i","s","c","o">>,
     california_default |-> <<"c","a","l","i","f","o","r","n","i","a","_","d","e","f","a","u","l","t">>]

classify_jurisdiction_tool(address, rulesTable) ==
    LET jurisdiction == JurisdictionOf(address)
        rules == rulesTable[jurisdiction]
    IN Return(json_dumps(PyDict(
           [address |-> PyStr(address),
            classified_jurisdiction |-> PyStr(IdChars[jurisdiction]),
            jurisdiction_info |-> rules])))

\* the addresses explored: up to MaxFrags fragments, concatenated
Frags ==
    {<<"l","o","s"," ","a","n","g","e","l","e","s">>, <<"S","a","n"," ","F","r","a","n","c","i","s","c","o">>, <<"l">>, <<"a">>, <<"A">>, <<"s">>, <<"F">>,
     <<"x">>, <<" ">>}

RECURSIVE Concat(_)
Concat(ss) == IF ss = <<>> THEN <<>> ELSE Head(ss) \o Concat(Tail(ss))

Addresses ==
    {Concat(fs) : fs \in UNION {[1..n -> Frags] : n \in 0..MaxFrags}}

---------------------------------------------------------------------------
(* generate_permit_form_tool *)

ErrorMsg == <<"E","r","r","o","r",":"," ","I","n","v","a","l","i","d"," ","o","r"," ","u","n","p","a","r","s","e","a","b","l","e"," ","j","u","r","i","s","d","i","c","t","i","o","n"," ","d","a","t","a"," ","p","r","o","v","i","d","e","d"," ","t","o"," ","g","e","n","e","r","a","t","e","_","p","e","r","m","i","t","_","f","o","r","m","_","t","o","o","l",".">>

\* no fence, a fence opened with the json tag, a bare fence
Fences == {"", "json_fence", "plain_fence"}

\* _extract_json_from_text: strip, drop a code fence, parse; {} when the
\* text does not parse
extract_json_from_text(text) ==
    LET body == IF text.t = "text" THEN text.v.body ELSE ParseScalar(text.v)
    IN IF body = NotJson THEN EmptyDict ELSE body

\* x[key] for a str key: the value, or the exception raised
Subscript(x, key) ==
    IF x.t = "dict"
    THEN IF key \in DOMAIN x.v THEN Return(x.v[key]) ELSE Raise("KeyError")
    ELSE Raise("TypeError")

\* The dicts live in a heap so that a reference and a copy are different
\* things: "template" is the object PERMIT_TEMPLATE names.
\* PERMIT_TEMPLATE.copy() allocates a new dict with the same items.
\* variant: the reference itself, no copy made
dict_alias(heap, src) == [heap |-> heap, ref |-> src]

dict_copy(heap, src) ==
    [heap |-> [r \in DOMAIN heap \cup {"permit_form"} |->
                   IF r = "permit_form" THEN heap[src] ELSE heap[r]],
     ref |-> "permit_form"]

\* d[key] = value on the dict a reference names
SetItem(heap, ref, key, value) ==
    [heap EXCEPT ![ref] = [k \in DOMAIN heap[ref] \cup {key} |->
                               IF k = key THEN value ELSE heap[ref][k]]]

\* the assignments of lines 210-214, in order: form key, rules key
RuleFields ==
    <<[form |-> "jurisdiction", rule |-> "jurisdiction_name"],
      [form |-> "permit_type", rule |-> "permit_type"],
      [form |-> "requirements_checklist", rule |-> "requirements"],
      [form |-> "fees", rule |-> "fees"],
      [form |-> "processing_time", rule |-> "processing_time"]>>

\* runs the assignments from the i-th on; stops at the first that raises
RECURSIVE FillFromRules(_, _, _, _)
FillFromRules(heap, ref, rules, i) ==
    IF i > Len(RuleFields) THEN [heap |-> heap, raised |-> ""]
    ELSE LET got == Subscript(rules, RuleFields[i].rule)
         IN IF got.raised # "" THEN [heap |-> heap, raised |-> got.raised]
            ELSE FillFromRules(SetItem(heap, ref, RuleFields[i].form, got.value),
                               ref, rules, i + 1)

\* variant: every item of details, unknown keys included
MergeUnfiltered(form, details) == details

\* {k: v for k, v in details.items() if k in permit_form}
MergeFilter(form, details) ==
    [k \in DOMAIN details \cap DOMAIN form |-> details[k]]

\* permit_form.update(other)
Update(heap, ref, other) ==
    [heap EXCEPT ![ref] = [k \in DOMAIN heap[ref] \cup DOMAIN other |->
                               IF k \in DOMAIN other THEN other[k] ELSE heap[ref][k]]]

RECURSIVE Digits(_)
Digits(n) ==
    IF n < 10 THEN <<SubSeq(<<"0","1","2","3","4","5","6","7","8","9">>, n + 1, n + 1)[1]>>
    ELSE Digits(n \div 10) \o Digits(n % 10)

\* str(x), as an f-string renders a value
Format(x) ==
    CASE x.t = "int" -> IF x.v < 0 THEN <<"-">> \o Digits(-x.v) ELSE Digits(x.v)
      [] x.t = "str" -> x.v
      [] x.t = "none" -> <<"N","o","n","e">>
      [] x.t = "bool" -> IF x.v THEN <<"T","r","u","e">> ELSE <<"F","a","l","s","e">>

\* the tool: its return value or exception, and the template object afterwards
generate_permit_form_tool(address, jurisdiction_data, system_details, template) ==
    LET heap0 == [template |-> template]
        jurisdiction_info == extract_json_from_text(jurisdiction_data)
        has == IF Truthy(jurisdiction_info) THEN In("jurisdiction_info", jurisdiction_info)
               ELSE "no"
        error == PyStr(ErrorMsg)
    IN
    IF has = "TypeError" THEN [ret |-> Raise("TypeError"), template |-> template]
    ELSE IF has = "no" THEN [ret |-> Return(error), template |-> template]
    ELSE
    LET rulesGot == Subscript(jurisdiction_info, "jurisdiction_info") IN
    IF rulesGot.raised # "" THEN [ret |-> Raise(rulesGot.raised), template |-> template]
    ELSE
    LET rules == rulesGot.value
        copied == dict_copy(heap0, "template")
        permit_form == copied.ref
        heap1 == SetItem(copied.heap, permit_form, "property_address", PyStr(address))
        filled == FillFromRules(heap1, permit_form, rules, 1)
    IN
    IF filled.raised # "" THEN [ret |-> Raise(filled.raised), template |-> filled.heap.template]
    ELSE
    LET heap2 == SetItem(filled.heap, permit_form, "submission_date", PyStr(<<"2","0","2","4","-","0","7","-","1","8">>))
        details == IF Truthy(system_details) THEN extract_json_from_text(system_details)
                   ELSE EmptyDict
    IN
    IF details.t # "dict" THEN [ret |-> Raise("AttributeError"), template |-> heap2.template]
    ELSE
    LET heap3 == IF Truthy(system_details)
                 THEN Update(heap2, permit_form, MergeFilter(heap2[permit_form], details.v))
                 ELSE heap2
        contact == Subscript(rules, "contact")
    IN
    IF contact.raised # "" THEN [ret |-> Raise(contact.raised), template |-> heap3.template]
    ELSE
    [ret |-> Return(json_dumps(PyDict(
        [permit_form |-> PyDict(heap3[permit_form]),
         jurisdiction_contact |-> contact.value,
         next_steps |-> PyList(
            <<PyStr(<<"C","o","m","p","l","e","t","e"," ","a","l","l"," ","r","e","q","u","i","r","e","d"," ","d","o","c","u","m","e","n","t","s">>),
              PyStr(<<"P","a","y"," ","p","e","r","m","i","t"," ","f","e","e"," ","o","f"," ","$">> \o Format(rules.v["fees"])),
              PyStr(<<"S","u","b","m","i","t"," ","a","p","p","l","i","c","a","t","i","o","n"," ","t","o"," ","j","u","r","i","s","d","i","c","t","i","o","n">>),
              PyStr(<<"W","a","i","t"," ">> \o Format(rules.v["processing_time"]) \o <<" ","f","o","r"," ","a","p","p","r","o","v","a","l">>)>>)]))),
     template |-> heap3.template]

\* the jurisdiction_data texts explored
ClassifyOutputs ==
    {classify_jurisdiction_tool(a, InitRules).value :
        a \in {<<"8","7","7","0"," ","W"," ","O","l","y","m","p","i","c"," ","B","l","v","d",","," ","L","o","s"," ","A","n","g","e","l","e","s">>, <<"1"," ","M","a","r","k","e","t"," ","S","t",","," ","S","a","n"," ","F","r","a","n","c","i","s","c","o">>,
               <<"A","n","y","t","o","w","n",","," ","N","o","w","h","e","r","e">>}}

WithInfo(info) == Text("", PyDict([jurisdiction_info |-> info]))

LARules == InitRules["los_angeles"]

DropKey(d, key) == PyDict([k \in DOMAIN d.v \ {key} |-> d.v[k]])

JurisdictionTexts ==
    ClassifyOutputs
    \cup {Text(f, b.v.body) : f \in Fences \ {""}, b \in ClassifyOutputs}
    \cup {WithInfo(DropKey(LARules, "contact")), WithInfo(DropKey(LARules, "fees")),
          WithInfo(PyDict([fees |-> PyNone, processing_time |-> PyInt(4),
                           jurisdiction_name |-> PyNone, permit_type |-> PyNone,
                           requirements |-> PyNone, contact |-> PyNone])),
          WithInfo(PyInt(5)), WithInfo(PyNone), WithInfo(PyList(<<>>)), WithInfo(EmptyDict)}
    \cup {PyStr(<<>>), PyStr(<<"n","o","t"," ","j","s","o","n">>), Text("", NotJson), Text("json_fence", NotJson)}
    \cup {Text(f, b) : f \in Fences,
                       b \in {EmptyDict, PyDict([address |-> PyStr(<<"x">>)]),
                              PyList(<<>>), PyList(<<PyInt(1)>>),
                              PyList(<<PyStr(<<"j","u","r","i","s","d","i","c","t","i","o","n","_","i","n","f","o">>)>>),
                              PyStr(<<>>), PyStr(<<"l","a">>), PyStr(<<"j","u","r","i","s","d","i","c","t","i","o","n","_","i","n","f","o">>),
                              PyStr(<<"n","o"," ","j","u","r","i","s","d","i","c","t","i","o","n","_","i","n","f","o"," ","h","e","r","e">>),
                              PyInt(0), PyInt(5), PyNone, PyBool(TRUE), PyBool(FALSE)}}

\* the system_details texts explored: objects over DetailKeys, and non-objects
DetailKeys == {"system_size_kw", "fees", "status", "color", "permit_form"}
DetailValues == {PyStr(<<"7","k","W">>), PyInt(24)}

DetailObjects ==
    UNION {[ks -> DetailValues] : ks \in SUBSET DetailKeys}

DetailTexts ==
    {PyStr(<<>>), PyStr(<<"n","o","t"," ","j","s","o","n">>), Text("", NotJson),
     Text("", PyList(<<PyInt(1)>>)), Text("plain_fence", PyNone)}
    \cup {Text("", PyDict(d)) : d \in DetailObjects}
    \cup {Text("json_fence", PyDict(d)) : d \in {x \in DetailObjects : Cardinality(DOMAIN x) = 2}}

GenerateAddresses == {<<"8","7","7","0"," ","W"," ","O","l","y","m","p","i","c"," ","B","l","v","d",","," ","L","o","s"," ","A","n","g","e","l","e","s">>, <<"A","n","y","t","o","w","n",","," ","N","o","w","h","e","r","e">>}

---------------------------------------------------------------------------
(* site_impact_research_tool *)

\* variant: seen titles not consulted
KeepNonEmpty(title, seen_titles) == Truthy(title)

\* line 78: title not in seen_titles and title
Keep(title, seen_titles) == title \notin seen_titles /\ Truthy(title)

\* the loop of lines 76-80 from the i-th article on
RECURSIVE Dedup(_, _, _, _)
Dedup(all_articles, i, seen_titles, unique_articles) ==
    IF i > Len(all_articles) THEN unique_articles
    ELSE LET article == all_articles[i]
             title == Get(article, "title", PyStr(<<>>))
         IN IF Keep(title, seen_titles)
            THEN Dedup(all_articles, i + 1, seen_titles \cup {title},
                       Append(unique_articles, article))
            ELSE Dedup(all_articles, i + 1, seen_titles, unique_articles)

UniqueArticles(all_articles) == Dedup(all_articles, 1, {}, <<>>)

FirstTen(s) == SubSeq(s, 1, IF Len(s) < 10 THEN Len(s) ELSE 10)

\* all_articles is the concatenation of what the eight searches returned
site_impact_research_tool(location, api_token, all_articles) ==
    IF ~Truthy(api_token)
    THEN Return(PyStr(<<"E","r","r","o","r",":"," ","N","E","W","S","_","A","P","I","_","T","O","K","E","N"," ","e","n","v","i","r","o","n","m","e","n","t"," ","v","a","r","i","a","b","l","e"," ","n","o","t"," ","s","e","t">>))
    ELSE LET unique_articles == UniqueArticles(all_articles)
         IN Return(json_dumps(PyDict(
                [total_articles |-> PyInt(Len(unique_articles)),
                 articles |-> PyList(FirstTen(unique_articles)),
                 search_location |-> IF Truthy(location) THEN location
                                     ELSE PyStr(<<"G","e","n","e","r","a","l">>)])))

\* the articles explored: with a title, an empty title, a null title, no title
Articles ==
    {PyDict([title |-> PyStr(ti), url |-> PyInt(u)]) : ti \in {<<"A">>, <<"B">>}, u \in {1, 2}}
    \cup {PyDict([title |-> PyStr(<<>>), url |-> PyInt(3)]),
          PyDict([title |-> PyNone, url |-> PyInt(4)]),
          PyDict([url |-> PyInt(5)])}

ArticleLists == UNION {[1..n -> Articles] : n \in 0..MaxArticles}

---------------------------------------------------------------------------
(* get_crew_answer, extract_location_from_address *)

\* a crew result: its raw attribute, the results of its tasks_output,
\* and what str() gives for it
CrewResult(raw, tasks_output, text) == [raw |-> raw, tasks_output |-> tasks_output, str |-> text]

get_crew_answer(crew_result) ==
    IF crew_result.raw # NoAttr /\ Truthy(crew_result.raw)
    THEN IF crew_result.raw.t = "dict" THEN crew_result.raw
         ELSE IF ~IsStr(crew_result.raw) THEN crew_result.str
         ELSE IF json_loads(crew_result.raw) = NotJson THEN crew_result.str
         ELSE json_loads(crew_result.raw)
    ELSE IF crew_result.tasks_output # NoAttr /\ Truthy(crew_result.tasks_output)
    THEN LET last_task_output ==
                 crew_result.tasks_output.v[Len(crew_result.tasks_output.v)]
         IN IF ~IsStr(last_task_output) THEN crew_result.str
            ELSE IF json_loads(last_task_output) = NotJson THEN crew_result.str
            ELSE json_loads(last_task_output)
    ELSE crew_result.str

extract_location_from_address(address) ==
    LET address_lower == Lower(address) IN
    IF Contains(<<"l","o","s"," ","a","n","g","e","l","e","s">>, address_lower) \/ Contains(<<"l","a">>, address_lower)
    THEN <<"L","o","s"," ","A","n","g","e","l","e","s"," ","C","a","l","i","f","o","r","n","i","a">>
    ELSE IF Contains(<<"s","a","n"," ","f","r","a","n","c","i","s","c","o">>, address_lower) \/ Contains(<<"s","f">>, address_lower)
    THEN <<"S","a","n"," ","F","r","a","n","c","i","s","c","o"," ","C","a","l","i","f","o","r","n","i","a">>
    ELSE <<"C","a","l","i","f","o","r","n","i","a">>

---------------------------------------------------------------------------
(* calculate_feasibility_score *)

\* s.split('-')[0]
RECURSIVE SplitHead(_)
SplitHead(s) ==
    IF s = <<>> \/ Head(s) = "-" THEN <<>> ELSE <<Head(s)>> \o SplitHead(Tail(s))

\* int(s): blanks stripped, an optional sign, then digits; else ValueError
ParseInt(s) ==
    LET c == Strip(s)
        digits == IF c # <<>> /\ Head(c) \in {"+", "-"} THEN Tail(c) ELSE c
    IN IF AllDigits(digits)
       THEN Return(IF c # <<>> /\ Head(c) = "-" THEN -ToNat(digits) ELSE ToNat(digits))
       ELSE Raise("ValueError")

IsNumber(x) == x.t \in {"int", "bool"}
NumberOf(x) == IF x.t = "bool" THEN (IF x.v THEN 1 ELSE 0) ELSE x.v

\* lines 335-336: the weeks read from processing_time, or the exception
WeeksOf(processing_time, processing_weeks) ==
    LET has == In("week", processing_time) IN
    IF has = "TypeError" THEN Raise("TypeError")
    ELSE IF has = "no" THEN Return(processing_weeks)
    ELSE IF processing_time.t # "str" THEN Raise("AttributeError")
    ELSE ParseInt(SplitHead(processing_time.v))

DefaultTime == <<"4"," ","w","e","e","k","s">>

\* line 338, in tenths: max(0, 100 - fees/10 - processing_weeks*5)
PermitFormula(fees, processing_weeks) ==
    LET s == 1000 - fees - 50 * processing_weeks
    IN IF s > 0 THEN s ELSE 0

\* the first try block: permit_score in tenths (computed is FALSE for the
\* flat 60 of the except clause), and the locals fees and processing_weeks
\* as the block leaves them
PermitBlock(permitting_data) ==
    LET fallback(fees, weeks) ==
            [permit_score |-> 600, computed |-> FALSE, fees |-> fees,
             processing_weeks |-> weeks]
        score(fees, weeks) ==
            IF IsNumber(fees)
            THEN [permit_score |-> PermitFormula(NumberOf(fees), weeks),
                  computed |-> TRUE, fees |-> fees, processing_weeks |-> weeks]
            ELSE fallback(fees, weeks)
        data == IF IsStr(permitting_data) THEN json_loads(permitting_data)
                ELSE permitting_data
    IN
    IF data = NotJson THEN fallback(Unbound, Unbound)
    ELSE
    LET has == In("permit_form", data) IN
    IF has = "TypeError" THEN fallback(PyInt(500), 4)
    ELSE IF has = "no" THEN score(PyInt(500), 4)
    ELSE IF data.t # "dict" THEN fallback(PyInt(500), 4)
    ELSE
    LET permit_form == data.v["permit_form"] IN
    IF permit_form.t # "dict" THEN fallback(PyInt(500), 4)
    ELSE
    LET fees == Get(permit_form, "fees", PyInt(500))
        processing_time == Get(permit_form, "processing_time", PyStr(DefaultTime))
        weeks == WeeksOf(processing_time, 4)
    IN IF weeks.raised # "" THEN fallback(fees, 4)
       ELSE score(fees, weeks.value)

\* variant: the linear score without the clamps
ResearchFormulaUnclamped(total_articles) == 70 - total_articles * 2

\* line 348: max(20, min(80, 70 - total_articles*2))
ResearchFormula(total_articles) ==
    LET s == 70 - total_articles * 2
        m == IF s < 80 THEN s ELSE 80
    IN IF m > 20 THEN m ELSE 20

\* the second try block: research_score
ResearchBlock(research_data) ==
    LET data == IF IsStr(research_data) THEN json_loads(research_data)
                ELSE research_data
    IN IF data = NotJson \/ data.t # "dict" THEN 60
       ELSE LET total_articles == Get(data, "total_articles", PyInt(0))
            IN IF IsNumber(total_articles)
               THEN ResearchFormula(NumberOf(total_articles))
               ELSE 60

\* round(x, 1) of a score held in hundredths: the nearest tenth, ties to even
Round1(hundredths) ==
    LET q == hundredths \div 10
        r == hundredths % 10
    IN IF r > 5 \/ (r = 5 /\ q % 2 = 1) THEN q + 1 ELSE q

\* lines 355-363, on a score in hundredths
Decide(overall) ==
    IF overall >= 7000 THEN [decision |-> <<"G","O">>, risk_level |-> <<"L","o","w">>]
    ELSE IF overall >= 5000 THEN [decision |-> <<"C","O","N","D","I","T","I","O","N","A","L"," ","G","O">>, risk_level |-> <<"M","e","d","i","u","m">>]
    ELSE [decision |-> <<"N","O","-","G","O">>, risk_level |-> <<"H","i","g","h">>]

\* max(0, x) is the int 0 unless x > 0; the flat 60 is an int
RoundedPermit(p) ==
    IF p.computed /\ p.permit_score > 0 THEN PyFloat(p.permit_score)
    ELSE PyInt(p.permit_score \div 10)

calculate_feasibility_score(permitting_data, research_data) ==
    LET p == PermitBlock(permitting_data)
        research_score == ResearchBlock(research_data)
        overall_score == 6 * p.permit_score + 40 * research_score
        d == Decide(overall_score)
    IN IF p.fees = Unbound THEN Raise("UnboundLocalError")
       ELSE Return(PyDict(
               [overall_score |-> PyFloat(Round1(overall_score)),
                decision |-> PyStr(d.decision),
                risk_level |-> PyStr(d.risk_level),
                permit_score |-> RoundedPermit(p),
                research_score |-> PyInt(research_score),
                fees |-> p.fees,
                processing_weeks |-> PyInt(p.processing_weeks)]))

\* the inputs explored
MakeTime(w) == Digits(w) \o <<"-">> \o Digits(w + 2) \o <<" ","w","e","e","k","s">>

Absent == [t |-> "absent", v |-> 0]

FeeValues ==
    {PyInt(n) : n \in (0..FeeMax) \cup {300, 500, 750, 2000, -1000}}
    \cup {PyStr(<<"5","0","0">>), PyNone, PyBool(TRUE), Absent}

TimeValues ==
    {PyStr(MakeTime(w)) : w \in 0..MaxWeeks}
    \cup {PyStr(c) : c \in {<<"4"," ","w","e","e","k","s">>, <<"1","0"," ","d","a","y","s">>, <<>>, <<"w","e","e","k">>, <<" ","1","2"," ","-","1","6"," ","w","e","e","k","s">>,
                            <<"+","3","-","5"," ","w","e","e","k","s">>, <<"-","3"," ","w","e","e","k","s">>, <<"x","-","4"," ","w","e","e","k","s">>}}
    \cup {PyInt(4), PyNone, PyList(<<PyStr(<<"w","e","e","k">>)>>), PyDict([week |-> PyInt(1)]), Absent}

\* a dict with the given items, the absent ones left out
Items(f) == PyDict([k \in {x \in DOMAIN f : f[x] # Absent} |-> f[k]])

PermitPackage(fees, processing_time) ==
    PyDict([permit_form |-> Items([fees |-> fees, processing_time |-> processing_time]),
            jurisdiction_contact |-> PyStr(<<"l","a","d","b","s",".","l","a","c","i","t","y",".","o","r","g">>)])

OddPermitInputs ==
    {PyStr(<<"n","o","t"," ","j","s","o","n">>), PyStr(<<"p","e","r","m","i","t","_","f","o","r","m">>), PyStr(<<"5">>), PyStr(<<>>),
     Text("", NotJson), Text("json_fence", PermitPackage(PyInt(300), PyStr(<<"2","-","4"," ","w","e","e","k","s">>))),
     Text("", PermitPackage(PyInt(300), PyStr(<<"2","-","4"," ","w","e","e","k","s">>))),
     Text("", PyStr(<<"t","h","e"," ","p","e","r","m","i","t","_","f","o","r","m"," ","f","o","l","l","o","w","s">>)), Text("", PyStr(<<"l","a">>)),
     Text("", PyList(<<>>)), Text("", PyInt(5)), Text("", PyNone),
     EmptyDict, PyDict([permit_form |-> PyNone]), PyDict([permit_form |-> PyList(<<>>)]),
     PyList(<<>>), PyList(<<PyStr(<<"p","e","r","m","i","t","_","f","o","r","m">>)>>), PyInt(5), PyNone, PyBool(TRUE)}

PermitInputs ==
    {PermitPackage(f, pt) : f \in FeeValues, pt \in TimeValues} \cup OddPermitInputs

OddResearchInputs ==
    {PyStr(<<"n","o","t"," ","j","s","o","n">>), PyStr(<<"5">>), Text("", NotJson),
     Text("", PyDict([total_articles |-> PyInt(3)])), Text("", PyList(<<>>)),
     EmptyDict, PyDict([total_articles |-> PyNone]),
     PyDict([total_articles |-> PyStr(<<"3">>)]), PyDict([total_articles |-> PyBool(TRUE)]),
     PyDict([total_articles |-> PyList(<<>>)]),
     PyList(<<>>), PyInt(5), PyNone}

ResearchInputs ==
    {PyDict([total_articles |-> PyInt(n), search_location |-> PyStr(<<"G","e","n","e","r","a","l">>)]) :
        n \in (0..MaxTotal) \cup {-6, -5, -1, 25, 30, 40}}
    \cup OddResearchInputs

---------------------------------------------------------------------------
(* assess_solar_site_feasibility *)

\* the report, or the exception that leaves the function.  The justification
\* text, a rendering of fields the report already holds, is left out.
assess_solar_site_feasibility(address, system_size, panel_count, permitting_result, research_result) ==
    LET permitting_data == get_crew_answer(permitting_result)
        location == extract_location_from_address(address)
        research_data == get_crew_answer(research_result)
        got == calculate_feasibility_score(permitting_data, research_data)
        feasibility == got.value.v
    IN IF got.raised # "" THEN got
       ELSE Return(PyDict(
               [address |-> PyStr(address),
                system_specs |-> PyStr(system_size \o <<" ","s","y","s","t","e","m",","," ">> \o panel_count
                                       \o <<" ","p","a","n","e","l","s">>),
                assessment_date |-> PyStr(<<"2","0","2","4","-","0","7","-","1","8">>),
                feasibility_score |-> feasibility["overall_score"],
                decision |-> feasibility["decision"],
                risk_level |-> feasibility["risk_level"],
                breakdown |-> PyDict(
                    [permitting_score |-> feasibility["permit_score"],
                     research_score |-> feasibility["research_score"]]),
                key_factors |-> PyDict(
                    [estimated_fees |-> PyStr(<<"$">> \o Format(feasibility["fees"])),
                     processing_time |-> PyStr(Format(feasibility["processing_weeks"])
                                               \o <<" ","w","e","e","k","s">>),
                     location_research |-> PyStr(location)]),
                raw_permitting_data |-> permitting_data,
                raw_research_data |-> research_data]))

\* the crew results explored
SamplePackage == PermitPackage(PyInt(500), PyStr(<<"4","-","6"," ","w","e","e","k","s">>))

RawValues ==
    {NoAttr, PyStr(<<>>), PyNone, SamplePackage, PermitPackage(Absent, Absent),
     PyDict([total_articles |-> PyInt(3)]), PyInt(5), PyList(<<PyInt(1)>>),
     PyStr(<<"n","o","t"," ","j","s","o","n">>), PyStr(<<"5">>), Text("", NotJson),
     Text("", SamplePackage), Text("", PyDict([total_articles |-> PyInt(30)])),
     Text("json_fence", SamplePackage), Text("", PyList(<<>>)), Text("", PyInt(5)),
     Text("", PyStr(<<"l","a">>)), Text("", PyNone)}

TaskOutputs ==
    {NoAttr, PyList(<<>>), PyList(<<PyStr(<<"n","o","t"," ","j","s","o","n">>), Text("", SamplePackage)>>),
     PyList(<<Text("", SamplePackage), PyStr(<<"n","o","t"," ","j","s","o","n">>)>>), PyList(<<PyInt(5)>>)}

CrewTexts == {PyStr(<<"n","o","t"," ","j","s","o","n">>), Text("", PyDict([total_articles |-> PyInt(3)]))}

CrewResults ==
    {CrewResult(raw, PyList(<<>>), s) : raw \in RawValues, s \in CrewTexts}
    \cup {CrewResult(raw, tasks, s) : raw \in {NoAttr, PyStr(<<>>)},
                                     tasks \in TaskOutputs, s \in CrewTexts}

AssessAddresses ==
    {<<"8","7","7","0"," ","W"," ","O","l","y","m","p","i","c"," ","B","l","v","d",","," ","L","o","s"," ","A","n","g","e","l","e","s">>, <<"1"," ","M","a","r","k","e","t"," ","S","t",","," ","S","F">>, <<"A","n","y","t","o","w","n",","," ","N","o","w","h","e","r","e">>}

---------------------------------------------------------------------------
(* State machine: one call at a time; Done is the caller taking the result *)

Idle == [op |-> "idle"]

Init ==
    /\ JURISDICTION_RULES = InitRules
    /\ PERMIT_TEMPLATE = InitTemplate
    /\ call = Idle

Classify ==
    /\ call = Idle
    /\ \E address \in Addresses :
        call' = [op |-> "classify", address |-> address,
                 result |-> classify_jurisdiction_tool(address, JURISDICTION_RULES)]
    /\ UNCHANGED <<JURISDICTION_RULES, PERMIT_TEMPLATE>>

Generate ==
    /\ call = Idle
    /\ \E address \in GenerateAddresses, jurisdiction_data \in JurisdictionTexts,
          system_details \in DetailTexts :
        LET out == generate_permit_form_tool(address, jurisdiction_data,
                                             system_details, PERMIT_TEMPLATE)
        IN /\ call' = [op |-> "generate", address |-> address,
                       jurisdiction_data |-> jurisdiction_data,
                       system_details |-> system_details, result |-> out.ret]
           /\ PERMIT_TEMPLATE' = out.template
    /\ UNCHANGED JURISDICTION_RULES

Research ==
    /\ call = Idle
    /\ \E location \in {PyNone, PyStr(<<"C","a","l","i","f","o","r","n","i","a">>)},
          api_token \in {PyStr(<<>>), PyStr(<<"t","o","k","e","n">>)},
          all_articles \in ArticleLists :
        call' = [op |-> "research", location |-> location, api_token |-> api_token,
                 all_articles |-> all_articles,
                 result |-> site_impact_research_tool(location, api_token, all_articles)]
    /\ UNCHANGED <<JURISDICTION_RULES, PERMIT_TEMPLATE>>

Score ==
    /\ call = Idle
    /\ \E permitting_data \in PermitInputs, research_data \in ResearchInputs :
        call' = [op |-> "score", permitting_data |-> permitting_data,
                 research_data |-> research_data,
                 result |-> calculate_feasibility_score(permitting_data, research_data)]
    /\ UNCHANGED <<JURISDICTION_RULES, PERMIT_TEMPLATE>>

Assess ==
    /\ call = Idle
    /\ \E address \in AssessAddresses, permitting_result \in CrewResults,
          research_result \in CrewResults :
        call' = [op |-> "assess", address |-> address,
                 permitting_result |-> permitting_result,
                 research_result |-> research_result,
                 result |-> assess_solar_site_feasibility(address, <<"5","k","W">>, <<"2","0">>,
                                permitting_result, research_result)]
    /\ UNCHANGED <<JURISDICTION_RULES, PERMIT_TEMPLATE>>

Done ==
    /\ call # Idle
    /\ call' = Idle
    /\ UNCHANGED <<JURISDICTION_RULES, PERMIT_TEMPLATE>>

Next == Classify \/ Generate \/ Research \/ Score \/ Assess \/ Done

Spec == Init /\ [][Next]_vars

---------------------------------------------------------------------------
(* Properties *)

Returned == call.op # "idle" /\ call.result.raised = ""

\* the value a returned JSON text holds
Body(result) == result.value.v.body

GO == [decision |-> PyStr(<<"G","O">>), risk_level |-> PyStr(<<"L","o","w">>)]
CONDITIONAL == [decision |-> PyStr(<<"C","O","N","D","I","T","I","O","N","A","L"," ","G","O">>), risk_level |-> PyStr(<<"M","e","d","i","u","m">>)]
NOGO == [decision |-> PyStr(<<"N","O","-","G","O">>), risk_level |-> PyStr(<<"H","i","g","h">>)]

\* C1: every assessment ends with a report that holds a score and a
\* decision; no exception leaves assess_solar_site_feasibility, whatever
\* get_crew_answer handed on from the two agent runs.
C1_AssessAlwaysReports ==
    call.op = "assess" =>
        /\ call.result.raised = ""
        /\ {"feasibility_score", "decision"} \subseteq DOMAIN call.result.value.v

\* C2: in a returned score, decision and risk_level are those of the
\* reported overall_score: GO/Low from 70.0, CONDITIONAL GO/Medium from 50.0
\* up to 69.9, NO-GO/High below 50.0.
C2_DecisionFollowsReportedScore ==
    (call.op = "score" /\ Returned) =>
        LET r == call.result.value.v
            expected == IF r["overall_score"].v >= 700 THEN GO
                        ELSE IF r["overall_score"].v >= 500 THEN CONDITIONAL
                        ELSE NOGO
        IN r["decision"] = expected.decision /\ r["risk_level"] = expected.risk_level

\* C3: the overall_score of every returned score lies in 0..100.
C3_OverallScoreInRange ==
    (call.op = "score" /\ Returned) =>
        /\ call.result.value.v["overall_score"].v >= 0
        /\ call.result.value.v["overall_score"].v <= 1000

\* a permit_form that leaves out fees or processing_time, the field it does
\* carry being an integer fee or a "N-M weeks" time
OmitsField(permitting_data) ==
    /\ permitting_data.t = "dict"
    /\ "permit_form" \in DOMAIN permitting_data.v
    /\ LET form == permitting_data.v["permit_form"]
       IN /\ form.t = "dict"
          /\ "fees" \notin DOMAIN form.v \/ "processing_time" \notin DOMAIN form.v
          /\ "fees" \in DOMAIN form.v => form.v["fees"].t = "int"
          /\ "processing_time" \in DOMAIN form.v =>
                 \E w \in 0..(MaxWeeks + 1) :
                     form.v["processing_time"] = PyStr(MakeTime(w))

\* C4: a permit_form without fees or without processing_time is scored with
\* fees = 500 and processing_weeks = 4 in their place, by
\* max(0, 100 - fees/10 - processing_weeks*5); 30.0 when both are missing.
C4_MissingFieldsUseDefaults ==
    (call.op = "score" /\ OmitsField(call.permitting_data)) =>
        LET form == call.permitting_data.v["permit_form"].v
            fees == IF "fees" \in DOMAIN form THEN form["fees"].v ELSE 500
            weeks == IF "processing_time" \in DOMAIN form
                     THEN ToNat(SplitHead(form["processing_time"].v))
                     ELSE 4
            formula == 1000 - fees - 50 * weeks
            expected == IF formula > 0 THEN formula ELSE 0
        IN /\ Returned
           /\ call.result.value.v["fees"] = PyInt(fees)
           /\ call.result.value.v["processing_weeks"] = PyInt(weeks)
           /\ call.result.value.v["permit_score"].v
                  = (IF call.result.value.v["permit_score"].t = "float"
                     THEN expected ELSE expected \div 10)
           /\ (form = <<>> => call.result.value.v["permit_score"] = PyFloat(300))

\* the text parses, fence stripped, to a JSON object that has the key
ParsesToObjectWith(text, key) ==
    /\ text.t = "text"
    /\ text.v.body.t = "dict"
    /\ key \in DOMAIN text.v.body.v

\* C5: generate_permit_form_tool returns the error string, and raises
\* nothing, whenever jurisdiction_data does not parse to an object that has
\* the key jurisdiction_info.
C5_InvalidJurisdictionGivesError ==
    (call.op = "generate"
        /\ ~ParsesToObjectWith(call.jurisdiction_data, "jurisdiction_info")) =>
        call.result = Return(PyStr(ErrorMsg))

ReturnedForm ==
    /\ call.op = "generate"
    /\ call.result.raised = ""
    /\ call.result.value.t = "text"

\* C6: the returned permit_form has exactly the keys of the template; a key
\* of system_details that the template has carries the value system_details
\* gives it, a key the template lacks is dropped.
C6_MergeKeepsTemplateKeys ==
    ReturnedForm =>
        LET form == Body(call.result).v["permit_form"].v
            details == extract_json_from_text(call.system_details)
        IN /\ DOMAIN form = DOMAIN InitTemplate
           /\ (Truthy(call.system_details) /\ details.t = "dict") =>
                  \A k \in DOMAIN details.v :
                      IF k \in DOMAIN InitTemplate THEN form[k] = details.v[k]
                      ELSE k \notin DOMAIN form

C6_Witness ==
    /\ ReturnedForm
    /\ call.system_details.t = "text"
    /\ call.system_details.v.body.t = "dict"
    /\ {"color", "system_size_kw"} \subseteq DOMAIN call.system_details.v.body.v
    /\ Body(call.result).v["permit_form"].v["system_size_kw"] = PyInt(24)

TitleOf(article) ==
    IF "title" \in DOMAIN article.v THEN article.v["title"] ELSE PyStr(<<>>)

\* the positions of a list that hold the first article of a non-empty title
FirstOccurrences(l) ==
    {i \in 1..Len(l) :
        /\ TitleOf(l[i]).t = "str"
        /\ TitleOf(l[i]).v # <<>>
        /\ \A j \in 1..(i - 1) : TitleOf(l[j]) # TitleOf(l[i])}

\* C7: the kept articles are the first occurrences of the non-empty titles,
\* in their order; no two share a title and none has an empty or missing
\* title; deduplicating the list twice over, or the kept list again, gives
\* the same kept list.
C7_DedupIdempotentOrdered ==
    (call.op = "research" /\ call.result.value.t = "text") =>
        LET l == call.all_articles
            kept == Body(call.result).v["articles"].v
            first == FirstOccurrences(l)
        IN /\ Len(kept) = Cardinality(first)
           /\ Body(call.result).v["total_articles"] = PyInt(Len(kept))
           /\ \A k \in 1..Len(kept) :
                  \E i \in first :
                      /\ Cardinality({j \in first : j < i}) = k - 1
                      /\ kept[k] = l[i]
           /\ \A a, b \in 1..Len(kept) :
                  a # b => TitleOf(kept[a]) # TitleOf(kept[b])
           /\ \A k \in 1..Len(kept) :
                  "title" \in DOMAIN kept[k].v /\ Truthy(kept[k].v["title"])
           /\ UniqueArticles(l \o l) = kept
           /\ UniqueArticles(kept) = kept

C7_Witness ==
    /\ call.op = "research"
    /\ call.result.value.t = "text"
    /\ Len(call.all_articles) = 4
    /\ TitleOf(call.all_articles[1]) = PyStr(<<"B">>)
    /\ TitleOf(call.all_articles[2]) = PyStr(<<>>)
    /\ TitleOf(call.all_articles[3]) = PyStr(<<"A">>)
    /\ TitleOf(call.all_articles[4]) = PyStr(<<"B">>)
    /\ call.all_articles[1] # call.all_articles[4]
    /\ Body(call.result).v["articles"].v = <<call.all_articles[1], call.all_articles[3]>>

\* some token of the set occurs in the address, letter case aside
HasToken(tokens, address) ==
    \E tok \in tokens : \E i \in 1..Len(address) :
        /\ i + Len(tok) - 1 <= Len(address)
        /\ \A j \in 1..Len(tok) : LowerChar(address[i + j - 1]) = tok[j]

\* C8: classify_jurisdiction_tool returns for every address: los_angeles
\* when a Los Angeles token occurs in the lower-cased address, else
\* san_francisco when a San Francisco token occurs, else california_default;
\* jurisdiction_info is the rule record of the id returned.
C8_ClassifyTotal ==
    call.op = "classify" =>
        LET id == IF HasToken({<<"l","o","s"," ","a","n","g","e","l","e","s">>, <<"l","a">>}, call.address) THEN "los_angeles"
                  ELSE IF HasToken({<<"s","a","n"," ","f","r","a","n","c","i","s","c","o">>, <<"s","f">>}, call.address)
                  THEN "san_francisco"
                  ELSE "california_default"
        IN /\ call.result.raised = ""
           /\ Body(call.result).v["classified_jurisdiction"] = PyStr(IdChars[id])
           /\ Body(call.result).v["jurisdiction_info"] = InitRules[id]
           /\ Body(call.result).v["address"] = PyStr(call.address)

C8_Witness ==
    /\ call.op = "classify"
    /\ HasToken({<<"s","a","n"," ","f","r","a","n","c","i","s","c","o">>}, call.address)
    /\ HasToken({<<"l","a">>}, call.address)
    /\ ~HasToken({<<"l","o","s"," ","a","n","g","e","l","e","s">>}, call.address)
    /\ Body(call.result).v["classified_jurisdiction"] = PyStr(<<"l","o","s","_","a","n","g","e","l","e","s">>)

\* extraction of total_articles raises: the data is not an object, or the
\* field is not a number
ExtractionRaises(research_data) ==
    LET data == IF IsStr(research_data) THEN json_loads(research_data) ELSE research_data
    IN \/ data.t # "dict"
       \/ /\ "total_articles" \in DOMAIN data.v
          /\ data.v["total_articles"].t \notin {"int", "bool"}

\* C9: for an integer total_articles (0 when absent) the research score is
\* max(20, min(80, 70 - 2*total_articles)), within 20..80, 70 for no
\* articles and 20 for thirty; it is 60 when the extraction raises.
C9_ResearchScoreClamped ==
    (call.op = "score" /\ Returned) =>
        LET score == call.result.value.v["research_score"]
            data == call.research_data
        IN /\ ExtractionRaises(data) => score = PyInt(60)
           /\ (data.t = "dict"
                 /\ ("total_articles" \in DOMAIN data.v => data.v["total_articles"].t = "int")) =>
                  LET n == IF "total_articles" \in DOMAIN data.v
                           THEN data.v["total_articles"].v ELSE 0
                      linear == 70 - 2 * n
                  IN /\ score.t = "int"
                     /\ score.v >= 20 /\ score.v <= 80
                     /\ (linear >= 20 /\ linear <= 80) => score.v = linear
                     /\ linear < 20 => score.v = 20
                     /\ linear > 80 => score.v = 80
                     /\ n = 0 => score.v = 70
                     /\ n = 30 => score.v = 20

C9_Witness ==
    /\ call.op = "score"
    /\ Returned
    /\ call.research_data.t = "dict"
    /\ "total_articles" \in DOMAIN call.research_data.v
    /\ call.research_data.v["total_articles"] = PyInt(30)
    /\ call.result.value.v["research_score"] = PyInt(20)

\* C10: JURISDICTION_RULES and PERMIT_TEMPLATE keep their initial values
\* through every sequence of tool calls, and what a generate call returns is
\* what it returns on the initial template.
C10_TablesUnchanged ==
    /\ JURISDICTION_RULES = InitRules
    /\ PERMIT_TEMPLATE = InitTemplate
    /\ call.op = "generate" =>
           call.result = generate_permit_form_tool(call.address, call.jurisdiction_data,
                             call.system_details, InitTemplate).ret
    /\ call.op = "classify" =>
           call.result = classify_jurisdiction_tool(call.address, InitRules)

C10_Witness ==
    /\ ReturnedForm
    /\ call.system_details.t = "text"
    /\ call.system_details.v.body.t = "dict"
    /\ {"status", "fees"} \subseteq DOMAIN call.system_details.v.body.v
    /\ Body(call.result).v["permit_form"].v["status"] # InitTemplate["status"]
    /\ Body(call.result).v["permit_form"].v["fees"] = PyInt(24)
    /\ PERMIT_TEMPLATE["status"] = PyStr(<<"D","r","a","f","t">>)

=============================================================================
